---- MODULE Spec2Model ----
(***************************************************************************)
(* Gesture-driven phase machine of the Quantum Tree scene.                 *)
(*                                                                         *)
(* Numbers.  Landmark coordinates and HandData.rawX/rawY are carried in    *)
(* twentieths (0..20 stands for 0.0..1.0); the pointer (mouse.x, mouse.y)  *)
(* in tenths (-10..10 stands for -1.0..1.0), so that (mouse.x + 1) / 2 is  *)
(* exactly mouse.x + 10 twentieths.  Distances are in twentieths; avgDist  *)
(* = totalDist / 4 is carried in eightieths, where it is numerically       *)
(* totalDist.  Landmark inputs are chosen so that every square root is     *)
(* exact.                                                                  *)
(*                                                                         *)
(* Rendering.  setPhase queues an updater on App's state; App applies the  *)
(* queue when it next renders (AppRender).  InteractionHandler is a child  *)
(* of <Canvas>, which renders its children in a pass of its own, so the    *)
(* frame callback keeps the phase prop of its last render until that pass  *)
(* has run (SceneRender).  Frames, detection results and pointer events    *)
(* are callbacks that run to completion and may fall between the two.      *)
(***************************************************************************)
EXTENDS Integers, Sequences, FiniteSets, TLC

VARIABLES
    available,   \* window.Hands, window.Camera and the video element exist
    hand,        \* handDataRef.current
    mouse,       \* useThree().mouse
    results,     \* the results object last handed to hands.onResults
    unread,      \* a detection result wrote the gesture and no frame read it yet
    lost,        \* gesture overwritten by a result before any frame read it
    phase,       \* App state.phase
    pending,     \* setState updaters queued by setPhase, not yet rendered
    propPhase,   \* the phase prop captured by InteractionHandler's frame callback
    op           \* the callback that ran last

interactionVars ==
    <<available, hand, mouse, results, unread, lost, phase, pending, propPhase, op>>

VARIABLES
    colors,       \* the palette prop (App state.colors)
    genPc,        \* useTreeData's memo callback: "branches" while looping, then "done"
    genI,         \* i of the main loop over totalBranches
    points,       \* points.length: three numbers per foliage point
    pointColors,  \* pointColors.length: three numbers per foliage point
    decorations,  \* decorations.length
    lastDeco,     \* the decoration pushed last
    segHexes,     \* the colorHex values addPoint was given during the last main branch
    branchCalls   \* the generateBranch calls made for the last main branch

treeVars ==
    <<colors, genPc, genI, points, pointColors, decorations, lastDeco, segHexes,
      branchCalls>>

VARIABLES
    metaData,     \* EmanatingParticles' records: their number, and one of them
    snow,         \* IntroSnowflakes' position buffer: its length, and one flake
    treeGroup     \* ChristmasTree's revealTimeRef, the finalScale of its last frame,
                  \* and the scale of its group

fieldVars == <<metaData, snow, treeGroup>>

VARIABLES
    hexToFreqCall \* a call of hexToFreq: its arguments, its result, the calls made

freqVars == <<hexToFreqCall>>

VARIABLES
    theme         \* a generateTheme call: where it is, what the service did, its result

themeVars == <<theme>>

VARIABLES
    clock,          \* the time, in tenths of a second
    audioAvailable, \* whether an AudioContext can be constructed
    isPlayingMusic, \* App state.isPlayingMusic
    audioCtxRef,    \* audioCtxRef.current: "null" or "context"
    gainRef,        \* gainRef.current: whether it holds the master gain, and its automation
    oscillatorsRef, \* oscillatorsRef.current: the tones tracked
    fading,         \* tones dropped from oscillatorsRef, running until their scheduled stop
    timers,         \* the due times of stopAudio's timeouts
    changes,        \* the palette changes made
    thrown,         \* whether the last handler ended in an uncaught error
    lastStop,       \* the own gain and master gain at which a tone was last stopped
    mounted         \* whether App is mounted

audioVars ==
    <<clock, audioAvailable, isPlayingMusic, audioCtxRef, gainRef, oscillatorsRef,
      fading, timers, changes, thrown, lastStop, mounted>>

vars == <<interactionVars, treeVars, fieldVars, freqVars, themeVars, audioVars>>

\* What the callbacks of one part of the program leave alone.
outside == <<treeVars, fieldVars, freqVars, themeVars, audioVars>>

treeOutside == <<interactionVars, fieldVars, freqVars, themeVars, audioVars>>

fieldOutside == <<treeVars, freqVars, themeVars, audioVars>>

freqOutside == <<interactionVars, treeVars, fieldVars, themeVars, audioVars>>

themeOutside == <<interactionVars, treeVars, fieldVars, freqVars, audioVars>>

audioOutside ==
    <<interactionVars, fieldVars, freqVars, themeVars,
      genPc, genI, points, pointColors, decorations, lastDeco, segHexes, branchCalls>>

\* ---------------------------------------------------------------- bounds

\* Queued setState updaters at most.
MaxPending == 2

\* ----------------------------------------------------------------- types

GestureType == {"OPEN", "FIST", "NONE"}

AppPhase == {"SNOW", "GATHER", "TREE"}

\* ---------------------------------------------------------------- inputs

\* Landmark indices the classifier reads: wrist and the four fingertips.
tips == <<8, 12, 16, 20>>

\* Offsets of a fingertip from the wrist, with lengths 2, 3, 5 and 6.
IndexOffsets == {<<2, 0>>, <<0, 3>>, <<3, 4>>, <<6, 0>>}

OtherOffsets == {<<2, 0>>, <<0, 3>>, <<3, 4>>}

Landmarks(wrist, io, oo) ==
    [idx \in {0, 8, 12, 16, 20} |->
        IF idx = 0 THEN [x |-> wrist[1], y |-> wrist[2]]
        ELSE IF idx = 8 THEN [x |-> wrist[1] + io[1], y |-> wrist[2] + io[2]]
        ELSE [x |-> wrist[1] + oo[1], y |-> wrist[2] + oo[2]]]

\* Detection results: no hand, or one hand (maxNumHands: 1).
NoHand == [multiHandLandmarks |-> <<>>]

DetectionResults ==
    {NoHand} \cup
    {[multiHandLandmarks |-> <<Landmarks(<<10, 10>>, io, oo)>>] :
        io \in IndexOffsets, oo \in OtherOffsets}

\* Pointer positions delivered by pointer events.
PointerPositions == {[x |-> 0, y |-> 0], [x |-> -10, y |-> 6]}

\* ------------------------------------------------------ gesture classifier

\* Math.sqrt, on the perfect squares the inputs produce.
Sqrt(n) == CHOOSE r \in 0..n : r * r = n

\* Math.sqrt(Math.pow(tip.x - wrist.x, 2) + Math.pow(tip.y - wrist.y, 2))
Dist(tip, wrist) ==
    Sqrt((tip.x - wrist.x) * (tip.x - wrist.x) + (tip.y - wrist.y) * (tip.y - wrist.y))

RECURSIVE SumDist(_, _)
\* tips.forEach(idx => totalDist += d), over tips[i..4]
SumDist(landmarks, i) ==
    IF i > Len(tips) THEN 0
    ELSE Dist(landmarks[tips[i]], landmarks[0]) + SumDist(landmarks, i + 1)

\* avgDist = totalDist / 4, in eightieths.
AvgDist(landmarks) == SumDist(landmarks, 1)

\* 0.25 and 0.15 in eightieths.
OpenThreshold == 20

FistThreshold == 12

ClassifyInclusive(avgDist) ==
    IF avgDist >= OpenThreshold THEN "OPEN"
    ELSE IF avgDist < FistThreshold THEN "FIST"
    ELSE "NONE"

Classify(avgDist) ==
    IF avgDist > OpenThreshold THEN "OPEN"
    ELSE IF avgDist < FistThreshold THEN "FIST"
    ELSE "NONE"

HasHand(r) == Len(r.multiHandLandmarks) > 0

\* First gesture written since the last frame is kept: a later result does not
\* overwrite it.
UpdateRefFirstWins(h, r) ==
    IF HasHand(r)
    THEN LET landmarks == r.multiHandLandmarks[1]
             indexTip == landmarks[8]
         IN  [rawX |-> 20 - indexTip.x,
              rawY |-> indexTip.y,
              gesture |-> IF unread THEN h.gesture ELSE Classify(AvgDist(landmarks)),
              isTracking |-> TRUE]
    ELSE [h EXCEPT !.isTracking = FALSE,
                   !.gesture = IF unread THEN h.gesture ELSE "NONE"]

\* The no-hand branch also recentres the position.
UpdateRefRecentre(h, r) ==
    IF HasHand(r)
    THEN LET landmarks == r.multiHandLandmarks[1]
             indexTip == landmarks[8]
         IN  [rawX |-> 20 - indexTip.x,
              rawY |-> indexTip.y,
              gesture |-> Classify(AvgDist(landmarks)),
              isTracking |-> TRUE]
    ELSE [rawX |-> 10, rawY |-> 10, gesture |-> "NONE", isTracking |-> FALSE]

\* The body of hands.onResults: the new value of handDataRef.current.
UpdateRef(h, r) ==
    IF HasHand(r)
    THEN LET landmarks == r.multiHandLandmarks[1]
             indexTip == landmarks[8]
         IN  [rawX |-> 20 - indexTip.x,
              rawY |-> indexTip.y,
              gesture |-> Classify(AvgDist(landmarks)),
              isTracking |-> TRUE]
    ELSE [h EXCEPT !.isTracking = FALSE, !.gesture = "NONE"]

CameraStartedAlways == TRUE

\* HandTracker's effect returns early unless the library and the video exist;
\* otherwise it registers onResults and starts the camera.
CameraStarted == available

\* ------------------------------------------------------------ phase logic

FallbackUnguarded(h, m) == [h EXCEPT !.rawX = m.x + 10, !.rawY = m.y + 10]

\* The pointer fallback of the frame callback.
Fallback(h, m) ==
    IF ~h.isTracking
    THEN [h EXCEPT !.rawX = m.x + 10, !.rawY = m.y + 10]
    ELSE h

\* SNOW with OPEN jumps straight to TREE.
PhaseLogicSkip(ph, gesture) ==
    IF ph = "SNOW" THEN (IF gesture = "OPEN" THEN <<"TREE">> ELSE <<>>)
    ELSE IF ph = "GATHER"
         THEN (IF gesture = "FIST" THEN <<"TREE">>
               ELSE IF gesture = "NONE" THEN <<"SNOW">> ELSE <<>>)
    ELSE <<>>

\* GATHER with FIST is ignored.
PhaseLogicNoFist(ph, gesture) ==
    IF ph = "SNOW" THEN (IF gesture = "OPEN" THEN <<"GATHER">> ELSE <<>>)
    ELSE IF ph = "GATHER"
         THEN (IF gesture = "NONE" THEN <<"SNOW">> ELSE <<>>)
    ELSE <<>>

\* GATHER is sticky: NONE does not revert.
PhaseLogicSticky(ph, gesture) ==
    IF ph = "SNOW" THEN (IF gesture = "OPEN" THEN <<"GATHER">> ELSE <<>>)
    ELSE IF ph = "GATHER"
         THEN (IF gesture = "FIST" THEN <<"TREE">> ELSE <<>>)
    ELSE <<>>

\* GATHER reverts on anything that is not a fist.
PhaseLogicEager(ph, gesture) ==
    IF ph = "SNOW" THEN (IF gesture = "OPEN" THEN <<"GATHER">> ELSE <<>>)
    ELSE IF ph = "GATHER"
         THEN (IF gesture = "FIST" THEN <<"TREE">> ELSE <<"SNOW">>)
    ELSE <<>>

\* The setPhase calls one frame makes, in order, for the phase prop it sees and
\* the gesture it reads.
PhaseLogic(ph, gesture) ==
    IF ph = "SNOW" THEN (IF gesture = "OPEN" THEN <<"GATHER">> ELSE <<>>)
    ELSE IF ph = "GATHER"
         THEN (IF gesture = "FIST" THEN <<"TREE">>
               ELSE IF gesture = "NONE" THEN <<"SNOW">> ELSE <<>>)
    ELSE <<>>

RECURSIVE Reduce(_, _)
\* React applies the queued updaters prev => ({...prev, phase: p}) in order.
Reduce(queue, ph) ==
    IF queue = <<>> THEN ph ELSE Reduce(Tail(queue), Head(queue))

\* --------------------------------------------------------- tree generator
\* Colour strings are sequences of one-character strings, so that
\* toLowerCase, the comparison with '#FFFFFF' and parseInt act on the text.
\* The generator is followed through its loops and its array lengths; the
\* coordinates it computes for each point are not carried.

Hex(a, b, c, d, e, f) == <<"#", a, b, c, d, e, f>>

\* App's initial state.colors.
DefaultColors ==
    << Hex("0", "0", "F", "0", "F", "F"),
       Hex("7", "0", "0", "0", "F", "F"),
       Hex("F", "F", "0", "0", "6", "6"),
       Hex("F", "F", "D", "7", "0", "0"),
       Hex("F", "F", "F", "F", "F", "F") >>

HSR_PALETTE ==
    << Hex("0", "0", "F", "0", "F", "F"),
       Hex("7", "0", "0", "0", "F", "F"),
       Hex("F", "F", "0", "0", "6", "6"),
       Hex("F", "F", "D", "7", "0", "0"),
       Hex("D", "0", "D", "0", "F", "F") >>

\* Palettes handed to the generator: none, the default, and white in its
\* spellings beside one rich colour.
PaletteInputs ==
    { <<>>,
      DefaultColors,
      << Hex("f", "f", "f", "f", "f", "f") >>,
      << Hex("F", "f", "F", "f", "F", "f"), Hex("F", "F", "0", "0", "0", "0") >>,
      << <<"#", "F", "F", "F">>, Hex("0", "0", "F", "F", "0", "0") >> }

\* String.prototype.toLowerCase, on the characters colour strings are made of.
LowerChar(ch) ==
    CASE ch = "A" -> "a" [] ch = "B" -> "b" [] ch = "C" -> "c"
      [] ch = "D" -> "d" [] ch = "E" -> "e" [] ch = "F" -> "f"
      [] OTHER -> ch

toLowerCase(str) == [k \in 1..Len(str) |-> LowerChar(str[k])]

\* addPoint's test for a white colorHex, whose brightness it reduces further.
IsLightHex(colorHex) ==
    \/ toLowerCase(colorHex) = Hex("f", "f", "f", "f", "f", "f")
    \/ toLowerCase(colorHex) = <<"#", "f", "f", "f">>

\* addPoint: points.push(x, y, z) and pointColors.push(c.r, c.g, c.b), n times.
PushPoints(len, n) == len + 3 * n

totalBranches == 140

segments == 15

MainDensity == 20

SpurDensity == 8

\* density = depth === 0 ? 20 : 8
Density(depth) == IF depth = 0 THEN MainDensity ELSE SpurDensity

DecorationsPlacedAnyDepth(depth) == 1

\* if (depth === 0) { ... decorations.push(...) }: entries pushed at the tip.
DecorationsPlaced(depth) == IF depth = 0 THEN 1 ELSE 0

SpawnsSpurAnySegment(depth, draws, s) == depth = 0 /\ draws[s + 1]

SpawnsSpurFromFirst(depth, draws, s) == depth = 0 /\ draws[s + 1] /\ s > 0

\* depth === 0 && Math.random() < 0.45 && s > 1, where draws[s + 1] tells
\* whether the Math.random() of segment s came out below 0.45.
SpawnsSpur(depth, draws, s) == depth = 0 /\ draws[s + 1] /\ s > 1

RECURSIVE generateBranchPoints(_, _, _)
\* The foliage points generateBranch at depth adds from segment s to its end,
\* those of its spurs included.
generateBranchPoints(depth, s, draws) ==
    IF s >= segments
    THEN 0
    ELSE Density(depth)
         + (IF SpawnsSpur(depth, draws, s)
            THEN generateBranchPoints(depth + 1, 0, draws)
            ELSE 0)
         + generateBranchPoints(depth, s + 1, draws)

RECURSIVE generateBranchDecorations(_, _, _)
\* The decorations generateBranch at depth pushes from segment s to its end,
\* those of its spurs included.
generateBranchDecorations(depth, s, draws) ==
    IF s >= segments
    THEN DecorationsPlaced(depth)
    ELSE (IF SpawnsSpur(depth, draws, s)
          THEN generateBranchDecorations(depth + 1, 0, draws)
          ELSE 0)
         + generateBranchDecorations(depth, s + 1, draws)

RECURSIVE generateBranchCalls(_, _, _)
\* The generateBranch calls made by generateBranch at depth from segment s to
\* its end, each with its depth and the segment it was made at.
generateBranchCalls(depth, s, draws) ==
    IF s >= segments
    THEN {}
    ELSE (IF SpawnsSpur(depth, draws, s)
          THEN {[depth |-> depth + 1, at |-> s]}
                   \cup generateBranchCalls(depth + 1, 0, draws)
          ELSE {})
         \cup generateBranchCalls(depth, s + 1, draws)

\* Outcomes of the spur draws of one main branch: never, always, and only at
\* the two segments nearest the trunk.
SpurDraws ==
    { [s \in 1..segments |-> FALSE],
      [s \in 1..segments |-> TRUE],
      [s \in 1..segments |-> s <= 2] }

\* What one generateBranch(..., 0) call of the main loop pushes, for each
\* outcome of its spur draws.
MainBranchTotals ==
    [draws \in SpurDraws |->
        [points |-> generateBranchPoints(0, 0, draws),
         decorations |-> generateBranchDecorations(0, 0, draws),
         calls |-> {[depth |-> 0, at |-> -1]} \cup generateBranchCalls(0, 0, draws)]]

\* combinedPalette = [...colors, ...HSR_PALETTE]
combinedPalette(palette) == palette \o HSR_PALETTE

\* colors.filter(c => c !== '#FFFFFF' && c !== '#ffffff')
RichOf(palette) ==
    SelectSeq(palette, LAMBDA c : /\ c # Hex("F", "F", "F", "F", "F", "F")
                                  /\ c # Hex("f", "f", "f", "f", "f", "f"))

ColorPoolWhiteFallback(palette) ==
    LET richPalette == IF Len(RichOf(palette)) = 0
                       THEN <<Hex("F", "F", "F", "F", "F", "F")>>
                       ELSE RichOf(palette)
    IN  richPalette \o <<HSR_PALETTE[3], HSR_PALETTE[4]>>

\* richPalette, with HSR_PALETTE[2] pushed when empty, then
\* colorPool = [...richPalette, HSR_PALETTE[2], HSR_PALETTE[3]]
ColorPool(palette) ==
    LET richPalette == IF Len(RichOf(palette)) = 0
                       THEN <<HSR_PALETTE[3]>>
                       ELSE RichOf(palette)
    IN  richPalette \o <<HSR_PALETTE[3], HSR_PALETTE[4]>>

\* The decoration for rand (Math.random() in hundredths) and the index k that
\* Math.floor(Math.random() * length) gives for its colour.
Decoration(palette, rand, k) ==
    IF rand > 96 THEN [type |-> "photo", color |-> <<>>]
    ELSE IF rand > 80
         THEN [type |-> "bell", color |-> HSR_PALETTE[(k % Len(HSR_PALETTE)) + 1]]
    ELSE LET colorPool == ColorPool(palette)
             color == colorPool[(k % Len(colorPool)) + 1]
         IN  IF rand > 60 THEN [type |-> "spinning_star", color |-> color]
             ELSE IF rand > 40 THEN [type |-> "twinkling_bauble", color |-> color]
             ELSE [type |-> "bauble", color |-> color]

NoDeco == [type |-> "-", color |-> <<>>]

\* Values of rand (hundredths): the upper edge of each band, and one above
\* the last edge.
RandDraws == {40, 60, 80, 96, 97}

\* Values of Math.floor(Math.random() * length).
PickDraws == 0..5

\* The colours drawn for the points of one main branch: every entry of the
\* combined palette, or one entry for all of them.
HexDraws(palette) ==
    LET n == Len(combinedPalette(palette))
    IN  {1..n} \cup {{k} : k \in {1, n}}

\* The memo callback has not pushed anything yet.
TreeStart(palette) ==
    /\ colors = palette
    /\ genPc = "branches"
    /\ genI = 0
    /\ points = 0
    /\ pointColors = 0
    /\ decorations = 0
    /\ lastDeco = NoDeco
    /\ segHexes = {}
    /\ branchCalls = {}

TreeIdle == TreeStart(DefaultColors)

\* One pass of the main loop: generateBranch for main branch genI, with its
\* foliage points, its spurs and the decoration at its tip.
MainBranch(draws, picks, rand, k) ==
    /\ genPc = "branches"
    /\ genI < totalBranches
    /\ points' = PushPoints(points, MainBranchTotals[draws].points)
    /\ pointColors' = PushPoints(pointColors, MainBranchTotals[draws].points)
    /\ decorations' = decorations + MainBranchTotals[draws].decorations
    /\ lastDeco' = IF decorations' > decorations
                   THEN Decoration(colors, rand, k)
                   ELSE lastDeco
    /\ segHexes' = {combinedPalette(colors)[h] : h \in picks}
    /\ branchCalls' = MainBranchTotals[draws].calls
    /\ genI' = genI + 1
    /\ UNCHANGED <<colors, genPc>>
    /\ UNCHANGED treeOutside

\* The main loop is over: the arrays are returned.
TreeDone ==
    /\ genPc = "branches"
    /\ genI = totalBranches
    /\ genPc' = "done"
    /\ UNCHANGED <<colors, genI, points, pointColors, decorations, lastDeco, segHexes,
                   branchCalls>>
    /\ UNCHANGED treeOutside

\* --------------------------------------------------------- particle fields
\* Heights are in thousandths for the vortex and in hundredths for the
\* snowflakes; velocity is in hundredths, speedMultiplier in tenths, and a
\* frame's delta is given in sixtieths of a second.  One record of each field
\* is followed; the others are treated alike by the loops.

Abs(x) == IF x < 0 THEN 0 - x ELSE x

VortexCount == 800

SnowCount == 3000

\* new Array(count).fill(0).map(...), with velocity in [0.01, 0.04) and
\* y in [-4, 6).
VortexStart(velocity, y) ==
    metaData = [length |-> VortexCount, velocity |-> velocity, y |-> y,
                angle |-> 0, radius |-> 22,
                other |-> [velocity |-> 2, y |-> 0, angle |-> 0, radius |-> 22]]

\* new Float32Array(count * 3), with each coordinate in [-12.5, 12.5), the
\* flake's velocity in [-0.01, 0.01) and its target on the snowflake shape.
SnowStart(cy, vy, ty) ==
    snow = [length |-> SnowCount * 3, cy |-> cy, vy |-> vy, ty |-> ty]

\* useRef(0) and <group scale={[0, 0, 0]}>: the reveal in thousandths, the
\* scales in hundredths.
TreeGroupStart == treeGroup = [revealTimeRef |-> 0, finalScale |-> 0, scale |-> 0]

FieldsIdle == VortexStart(1, 0) /\ SnowStart(0, 0, 0) /\ TreeGroupStart

\* speedMultiplier, in tenths: 0.5 + (1 - rawY) * 2 while the gesture is NONE.
SpeedMultiplier(h) == IF h.gesture = "NONE" THEN 5 + (20 - h.rawY) ELSE 10

RespawnPushes(length) == length + 1

\* The respawn assigns particle.y and particle.radius of the record it has.
RespawnKeeps(length) == length

\* rotationForce * 0.01, in thousandths of a radian: (rawX - 0.5) * 4 while
\* the gesture is NONE, 0.5 otherwise.
RotationStep(h) == IF h.gesture = "NONE" THEN 2 * (h.rawX - 10) ELSE 5

MaxAngle == 20

RespawnBelow(particle, r) == [particle EXCEPT !.y = -5000, !.radius = r]

\* particle.y = -4; particle.radius = Math.random() * 5.0, in tenths.
Respawn(particle, r) == [particle EXCEPT !.y = -4000, !.radius = r]

\* The body of the loop over metaData for one record: move up, rotate, and
\* respawn above 8.
MoveUp(particle, h, d, r) ==
    LET moved == [particle EXCEPT
                     !.y = @ + particle.velocity * SpeedMultiplier(h) * d,
                     !.angle = @ + RotationStep(h)]
    IN  IF moved.y > 8000 THEN Respawn(moved, r) ELSE moved

\* EmanatingParticles' frame callback, for the record followed and another;
\* r and rOther are the radii Math.random() draws for them at a respawn.
VortexFrame(d, r, rOther) ==
    /\ Abs(metaData.angle + RotationStep(hand)) <= MaxAngle
    /\ LET particle == MoveUp(metaData, hand, d, r)
       IN  metaData' = [particle EXCEPT
                           !.length = IF particle.y < metaData.y
                                      THEN RespawnKeeps(@) ELSE @,
                           !.other = MoveUp(@, hand, d, rOther)]
    /\ op' = "vortexFrame"
    /\ UNCHANGED <<available, hand, mouse, results, unread, lost, phase, pending, propPhase>>
    /\ UNCHANGED <<fieldOutside, snow, treeGroup>>

\* MathUtils.lerp(x, y, t) = x + (y - x) * t, with t = delta * 2.5 = d / 24.
Lerp(x, y, d) == x + ((y - x) * d) \div 24

\* Writing index idx of a Float32Array of the given length: the length is
\* fixed, and a write past the end is dropped.
TypedWrite(length, idx) == length

ThresholdRespawnsAlways(ph, moved) == IF moved < -1000 THEN 1000 ELSE moved

\* if (cy < -10) cy = 10 while it snows, and if (cy < -10) cy = -100 once the
\* tree is shown.
Threshold(ph, moved) ==
    CASE ph = "SNOW" /\ moved < -1000 -> 1000
      [] ph = "TREE" /\ moved < -1000 -> -10000
      [] OTHER -> moved

\* IntroSnowflakes' frame callback, for the flake followed; rnd is
\* Math.random() * 0.2 in hundredths.
SnowFrame(d, rnd) ==
    /\ LET moved == CASE propPhase = "SNOW"   -> snow.cy + snow.vy - 1
                      [] propPhase = "GATHER" -> Lerp(snow.cy, snow.ty, d)
                      [] propPhase = "TREE"   -> snow.cy - (20 + rnd)
       IN  snow' = [snow EXCEPT !.cy = Threshold(propPhase, moved),
                                !.length = TypedWrite(@, (SnowCount - 1) * 3 + 2)]
    /\ op' = "snowFrame"
    /\ UNCHANGED <<available, hand, mouse, results, unread, lost, phase, pending, propPhase>>
    /\ UNCHANGED <<fieldOutside, metaData, treeGroup>>

RevealKeeps(visible, reveal, d) ==
    IF visible THEN reveal + ((1000 - reveal) * d) \div 120 ELSE reveal

\* revealTimeRef.current after a frame of delta = d / 60:
\* MathUtils.lerp(revealTimeRef.current, 1, delta * 0.5) while visible, else 0.
Reveal(visible, reveal, d) ==
    IF visible THEN reveal + ((1000 - reveal) * d) \div 120 ELSE 0

\* ChristmasTree's frame callback, with visible = (phase === 'TREE') of the
\* last render; the rotation of the group is not followed.
TreeFrame(d) ==
    /\ LET visible == propPhase = "TREE"
           scaleControl == IF visible /\ hand.gesture = "NONE"
                           THEN 20 - hand.rawY ELSE 10
           reveal == Reveal(visible, treeGroup.revealTimeRef, d)
           finalScale == IF visible THEN ((10 + scaleControl) * reveal) \div 200 ELSE 0
       IN  treeGroup' = [revealTimeRef |-> reveal,
                         finalScale |-> finalScale,
                         scale |-> treeGroup.scale
                                     + ((finalScale - treeGroup.scale) * 5) \div 100]
    /\ op' = "treeFrame"
    /\ UNCHANGED <<available, hand, mouse, results, unread, lost, phase, pending, propPhase>>
    /\ UNCHANGED <<fieldOutside, metaData, snow>>

\* ------------------------------------------------------------------ audio
HexDigits == <<"0", "1", "2", "3", "4", "5", "6", "7", "8", "9",
               "a", "b", "c", "d", "e", "f">>

IsHexDigit(ch) == \E v \in 1..16 : HexDigits[v] = LowerChar(ch)

\* The value of one hexadecimal digit, in either letter case.
DigitValue(ch) == (CHOOSE v \in 1..16 : HexDigits[v] = LowerChar(ch)) - 1

\* hex.replace('#', ''): the first '#' is removed.
RemoveHash(str) ==
    IF \E k \in 1..Len(str) : str[k] = "#"
    THEN LET first == CHOOSE k \in 1..Len(str) :
                          /\ str[k] = "#"
                          /\ \A j \in 1..(k - 1) : str[j] # "#"
         IN  SubSeq(str, 1, first - 1) \o SubSeq(str, first + 1, Len(str))
    ELSE str

RECURSIVE ParseDigits(_, _, _)
\* parseInt's scan: digits are taken from position k on, up to the first
\* character that is not a digit of the radix.
ParseDigits(str, k, acc) ==
    IF k > Len(str) \/ ~IsHexDigit(str[k])
    THEN acc
    ELSE ParseDigits(str, k + 1, acc * 16 + DigitValue(str[k]))

\* NaN, a value no digit string and no frequency has.
NaN == -1

\* parseInt(str, 16): NaN when str does not start with a digit.
parseInt(str) ==
    IF Len(str) = 0 \/ ~IsHexDigit(str[1]) THEN NaN ELSE ParseDigits(str, 1, 0)

hexToFreqModulo256(hex, base) ==
    LET val == parseInt(RemoveHash(hex))
    IN  IF val = NaN THEN NaN ELSE base + (val % 256)

hexToFreq(hex, base) ==
    LET val == parseInt(RemoveHash(hex))
        offset == IF val = NaN THEN NaN ELSE val % 300
    IN  IF offset = NaN THEN NaN ELSE base + offset

\* Six-digit colour strings, in both letter cases.
FreqHexInputs ==
    { Hex(a, b, "F", c, "f", d) : a \in {"0", "7"}, b \in {"0", "c", "F"},
                                  c \in {"0", "9", "D"}, d \in {"0", "6", "F"} }
        \cup {HSR_PALETTE[k] : k \in 1..Len(HSR_PALETTE)}

\* The bases updateAudioDrone passes, 150 + i * 100, and the default.
FreqBaseInputs == {150, 200, 250, 350}

MaxCalls == 2

FreqIdle == hexToFreqCall = [hex |-> <<>>, base |-> 0, result |-> 0, calls |-> 0]

\* One call of hexToFreq with the arguments drawn.
CallHexToFreq ==
    /\ hexToFreqCall.calls < MaxCalls
    /\ hexToFreqCall' = [hexToFreqCall EXCEPT
                            !.result = hexToFreq(hexToFreqCall.hex, hexToFreqCall.base),
                            !.calls = @ + 1]
    /\ UNCHANGED freqOutside

\* Times are in tenths of a second and gains in thousandths.  An AudioParam is
\* its list of automation events in order of time; its value at a time
\* follows the Web Audio rules for setValueAtTime and the two ramps.

MaxTime == 18

MaxChanges == 1

Event(kind, value, time) == [kind |-> kind, value |-> value, time |-> time]

RECURSIVE InsertEvent(_, _)
\* An event is put after the events that are not later than it.
InsertEvent(events, e) ==
    IF Len(events) = 0 THEN <<e>>
    ELSE IF events[Len(events)].time <= e.time THEN Append(events, e)
    ELSE Append(InsertEvent(SubSeq(events, 1, Len(events) - 1), e), events[Len(events)])

\* cancelScheduledValues(time): the events at or after time are removed.
cancelScheduledValues(events, time) == SelectSeq(events, LAMBDA e : e.time < time)

\* The events of the list that are not later than time.
Passed(events, time) == SelectSeq(events, LAMBDA e : e.time <= time)

\* The value of the parameter at time.  Before its first event a parameter
\* here reads 0, the value each is given when created.  An exponential ramp
\* from 0 stays at 0 until its end; one in progress from above its target is
\* strictly above the target, and the least such value is kept.
ValueAt(events, time) ==
    LET n == Len(Passed(events, time))
    IN  IF n = 0 THEN 0
        ELSE IF n = Len(events) \/ events[n + 1].kind = "set" THEN events[n].value
        ELSE LET from == events[n]
                 to == events[n + 1]
             IN  IF to.kind = "linear"
                 THEN from.value
                      + ((to.value - from.value) * (time - from.time))
                        \div (to.time - from.time)
                 ELSE IF from.value = 0 THEN 0
                 ELSE IF from.value > to.value THEN to.value + 1
                 ELSE from.value

\* setValueAtTime(0, now); linearRampToValueAtTime(peak, now + 2)
FadeIn(peak, now) == <<Event("set", 0, now), Event("linear", peak, now + 20)>>

\* exponentialRampToValueAtTime(0.001, now + 1)
FadeOut(events, now) == InsertEvent(events, Event("exponential", 1, now + 10))

Tone(freq, events, stopAt) == [freq |-> freq, events |-> events, stopAt |-> stopAt]

\* state.colors.slice(0, 3)
FirstThree(palette) == SubSeq(palette, 1, IF Len(palette) < 3 THEN Len(palette) ELSE 3)

\* The tones updateAudioDrone creates from the palette at time now.
NewTones(palette, now) ==
    [i \in 1..Len(FirstThree(palette)) |->
        Tone(hexToFreq(palette[i], 150 + (i - 1) * 100), FadeIn(300, now), -1)]

\* What updateAudioDrone does to a tone of oscillatorsRef: its gain is ramped
\* to 0.001 at now + 1 and its stop is scheduled at now + 1.1.
Release(tone, now) == Tone(tone.freq, FadeOut(tone.events, now), now + 11)

\* A stop is a hard stop while neither the tone's own gain nor the master
\* gain has come down to 0.001.
Audible(stop) == stop.own > 1 /\ stop.master > 1

\* The loudest of the stops made together.
Loudest(stops) ==
    IF \E st \in stops : Audible(st)
    THEN CHOOSE st \in stops : Audible(st) /\ \A o \in stops : o.own <= st.own
    ELSE CHOOSE st \in stops : \A o \in stops : o.own <= st.own

NoStop == [own |-> 0, master |-> 0, by |-> "-"]

AudioIdle ==
    /\ clock = 0
    /\ audioAvailable = TRUE
    /\ isPlayingMusic = FALSE
    /\ audioCtxRef = "null"
    /\ gainRef = [node |-> FALSE, events |-> <<>>]
    /\ oscillatorsRef = <<>>
    /\ fading = {}
    /\ timers = <<>>
    /\ changes = 0
    /\ thrown = FALSE
    /\ lastStop = NoStop
    /\ mounted = TRUE

\* updateAudioDrone: the tracked tones are released and replaced by the
\* tones of the palette.
updateAudioDrone(palette) ==
    IF audioCtxRef = "null" \/ ~gainRef.node
    THEN UNCHANGED <<oscillatorsRef, fading>>
    ELSE /\ fading' = fading \cup {Release(oscillatorsRef[k], clock) :
                                       k \in 1..Len(oscillatorsRef)}
         /\ oscillatorsRef' = NewTones(palette, clock)

ContextHeldNever == FALSE

\* if (audioCtxRef.current) return;
ContextHeld == audioCtxRef # "null"

\* startAudio, with the render that follows its setState.
startAudio ==
    IF ContextHeld
    THEN /\ thrown' = FALSE
         /\ UNCHANGED <<isPlayingMusic, audioCtxRef, gainRef, oscillatorsRef, fading>>
    ELSE IF ~audioAvailable
    THEN \* new AudioContextClass() throws: nothing after it is executed
         /\ thrown' = TRUE
         /\ UNCHANGED <<isPlayingMusic, audioCtxRef, gainRef, oscillatorsRef, fading>>
    ELSE /\ audioCtxRef' = "context"
         /\ gainRef' = [node |-> TRUE, events |-> FadeIn(100, clock)]
         /\ fading' = fading \cup {Release(oscillatorsRef[k], clock) :
                                       k \in 1..Len(oscillatorsRef)}
         /\ oscillatorsRef' = NewTones(colors, clock)
         /\ isPlayingMusic' = TRUE
         /\ thrown' = FALSE

\* stopAudio, with the render that follows its setState.
stopAudio ==
    /\ IF gainRef.node /\ audioCtxRef # "null"
       THEN /\ gainRef' = [gainRef EXCEPT
                              !.events = FadeOut(cancelScheduledValues(@, clock), clock)]
            /\ timers' = Append(timers, clock + 10)
       ELSE UNCHANGED <<gainRef, timers>>
    /\ isPlayingMusic' = FALSE
    /\ thrown' = FALSE
    /\ UNCHANGED <<audioCtxRef, oscillatorsRef, fading>>

\* A click on the ambiance control.
toggleAmbiance ==
    /\ mounted
    /\ IF isPlayingMusic
       THEN stopAudio
       ELSE startAudio /\ UNCHANGED timers
    /\ UNCHANGED <<clock, audioAvailable, changes, lastStop, colors, mounted>>
    /\ UNCHANGED audioOutside

\* App is unmounted and the cleanup of its first effect calls stopAudio.
Unmount ==
    /\ mounted
    /\ mounted' = FALSE
    /\ stopAudio
    /\ UNCHANGED <<clock, audioAvailable, changes, lastStop, colors>>
    /\ UNCHANGED audioOutside

\* state.colors changes and the effect on it runs.
PaletteChange(palette) ==
    /\ mounted
    /\ changes < MaxChanges
    /\ palette # colors
    /\ colors' = palette
    /\ changes' = changes + 1
    /\ IF isPlayingMusic
       THEN updateAudioDrone(palette)
       ELSE UNCHANGED <<oscillatorsRef, fading>>
    /\ thrown' = FALSE
    /\ UNCHANGED <<clock, audioAvailable, isPlayingMusic, audioCtxRef, gainRef,
                   timers, lastStop, mounted>>
    /\ UNCHANGED audioOutside

\* The tones whose scheduled stop is now stop.
ScheduledStop ==
    /\ \E tone \in fading : tone.stopAt = clock
    /\ LET due == {tone \in fading : tone.stopAt = clock}
       IN  /\ fading' = fading \ due
           /\ lastStop' = Loudest({[own |-> ValueAt(tone.events, clock),
                                    master |-> ValueAt(gainRef.events, clock),
                                    by |-> "schedule"] : tone \in due})
    /\ UNCHANGED <<clock, audioAvailable, isPlayingMusic, audioCtxRef, gainRef,
                   oscillatorsRef, timers, changes, thrown, colors, mounted>>
    /\ UNCHANGED audioOutside

\* The timeout of stopAudio: the tracked tones are stopped, the context is
\* closed, which ends the fading tones with it, and the references are
\* emptied.
ReleaseTimer ==
    /\ Len(timers) > 0
    /\ timers[1] = clock
    /\ timers' = Tail(timers)
    /\ LET ended == {oscillatorsRef[k] : k \in 1..Len(oscillatorsRef)}
                        \cup (IF audioCtxRef # "null" THEN fading ELSE {})
       IN  /\ lastStop' = IF ended = {} THEN lastStop
                          ELSE Loudest({[own |-> ValueAt(tone.events, clock),
                                         master |-> ValueAt(gainRef.events, clock),
                                         by |-> "timer"] : tone \in ended})
           /\ fading' = fading \ ended
    /\ oscillatorsRef' = <<>>
    /\ audioCtxRef' = "null"
    /\ gainRef' = [node |-> FALSE, events |-> <<>>]
    /\ thrown' = FALSE
    /\ UNCHANGED <<clock, audioAvailable, isPlayingMusic, changes, colors, mounted>>
    /\ UNCHANGED audioOutside

\* A tenth of a second passes; scheduled stops and timeouts happen when due.
Tick ==
    /\ clock < MaxTime
    /\ \A tone \in fading : tone.stopAt # clock
    /\ \A k \in 1..Len(timers) : timers[k] # clock
    /\ clock' = clock + 1
    /\ UNCHANGED <<audioAvailable, isPlayingMusic, audioCtxRef, gainRef, oscillatorsRef,
                   fading, timers, changes, thrown, lastStop, colors, mounted>>
    /\ UNCHANGED audioOutside

\* An AudioContext becomes constructible, or stops being so.
AudioBecomes(can) ==
    /\ audioAvailable # can
    /\ audioAvailable' = can
    /\ UNCHANGED <<clock, isPlayingMusic, audioCtxRef, gainRef, oscillatorsRef,
                   fading, timers, changes, thrown, lastStop, colors, mounted>>
    /\ UNCHANGED audioOutside

\* ------------------------------------------------------------------ theme
\* The text of a response is a sequence of tokens: the opening fence
\* ```json, the closing fence ```, white space, a JSON document, or
\* characters that are not JSON.  A JSON document is carried as the value
\* JSON.parse gives for it.

JsonObject(hasColors, colorList, hasGreeting, greeting) ==
    [type |-> "object", hasColors |-> hasColors, colors |-> colorList,
     hasGreeting |-> hasGreeting, greeting |-> greeting]

JsonNull == [type |-> "null", hasColors |-> FALSE, colors |-> <<>>,
             hasGreeting |-> FALSE, greeting |-> ""]

JsonArray == [type |-> "array", hasColors |-> FALSE, colors |-> <<>>,
              hasGreeting |-> FALSE, greeting |-> ""]

FallbackColors ==
    << Hex("F", "F", "0", "0", "0", "0"),
       Hex("0", "0", "F", "F", "0", "0"),
       Hex("F", "F", "D", "7", "0", "0"),
       Hex("F", "F", "F", "F", "F", "F"),
       Hex("0", "0", "0", "0", "F", "F") >>

\* The object the catch block returns.
FallbackTheme ==
    JsonObject(TRUE, FallbackColors, TRUE,
               "Happy Holidays! (System Rebooting... Energy restored)")

\* JSON documents a response can carry: a theme, and objects and values that
\* are not one.
JsonDocuments ==
    { JsonObject(TRUE, HSR_PALETTE, TRUE, "Warm wishes."),
      JsonObject(TRUE, SubSeq(HSR_PALETTE, 1, 3), TRUE, "Warm wishes."),
      JsonObject(TRUE, HSR_PALETTE, FALSE, ""),
      JsonObject(FALSE, <<>>, TRUE, "Warm wishes."),
      JsonObject(FALSE, <<>>, FALSE, ""),
      JsonArray,
      JsonNull }

Token(kind, value) == [kind |-> kind, value |-> value]

OpenFence == Token("fence json", JsonNull)

CloseFence == Token("fence", JsonNull)

Space == Token("space", JsonNull)

Junk == Token("junk", JsonNull)

Bodies == {<<Token("json", doc)>> : doc \in JsonDocuments} \cup {<<Junk>>, <<>>}

\* Response texts: a body, bare or fenced, with or without white space.
ResponseTexts ==
    { before \o body \o after :
        before \in {<<>>, <<OpenFence>>, <<OpenFence, Space>>, <<CloseFence, Space>>},
        body \in Bodies,
        after \in {<<>>, <<CloseFence>>, <<Space, CloseFence>>, <<CloseFence, Space>>} }

RECURSIVE DropLeadingSpace(_)
DropLeadingSpace(text) ==
    IF Len(text) > 0 /\ text[1] = Space THEN DropLeadingSpace(Tail(text)) ELSE text

RECURSIVE DropTrailingSpace(_)
DropTrailingSpace(text) ==
    IF Len(text) > 0 /\ text[Len(text)] = Space
    THEN DropTrailingSpace(SubSeq(text, 1, Len(text) - 1))
    ELSE text

\* text.replace(/^```json\s*/, "")
StripOpenFence(text) ==
    IF Len(text) > 0 /\ text[1] = OpenFence
    THEN DropLeadingSpace(Tail(text))
    ELSE text

\* text.replace(/```$/, ""): the closing fence of an opening one ends in ``` too
StripCloseFence(text) ==
    IF Len(text) > 0 /\ text[Len(text)] = CloseFence
    THEN SubSeq(text, 1, Len(text) - 1)
    ELSE text

\* text.trim()
Trim(text) == DropTrailingSpace(DropLeadingSpace(text))

CleanUp(text) == Trim(StripCloseFence(StripOpenFence(text)))

\* JSON.parse accepts exactly one document; anything else is a SyntaxError.
Parses(text) == Len(text) = 1 /\ text[1].kind = "json"

CatchRethrows == [pc |-> "rejected", result |-> JsonNull]

\* catch (error) { ...; return { colors: [...], greeting: ..., musicMood: ... } }
Catch == [pc |-> "resolved", result |-> FallbackTheme]

\* The code after the await: the empty-text test, the clean-up, JSON.parse
\* and the return of what it parsed.
Then(text) ==
    IF Len(text) = 0 THEN Catch
    ELSE IF ~Parses(CleanUp(text)) THEN Catch
    ELSE [pc |-> "resolved", result |-> CleanUp(text)[1].value]

ThemeIdle ==
    theme = [pc |-> "idle", service |-> "-", text |-> <<>>, result |-> JsonNull]

\* generateTheme is called and awaits the service.
CallGenerateTheme ==
    /\ theme.pc = "idle"
    /\ theme' = [theme EXCEPT !.pc = "awaiting"]
    /\ UNCHANGED themeOutside

\* The request fails: the await throws into the catch block.
RequestFails ==
    /\ theme.pc = "awaiting"
    /\ theme' = [theme EXCEPT !.service = "failed",
                              !.pc = Catch.pc, !.result = Catch.result]
    /\ UNCHANGED themeOutside

\* The request succeeds with a response whose text is given.
RequestResponds(text) ==
    /\ theme.pc = "awaiting"
    /\ theme' = [theme EXCEPT !.service = "responded", !.text = text,
                              !.pc = Then(text).pc, !.result = Then(text).result]
    /\ UNCHANGED themeOutside

\* ------------------------------------------------------------------ state

Init ==
    /\ available \in BOOLEAN
    /\ hand = [rawX |-> 10, rawY |-> 10, gesture |-> "NONE", isTracking |-> FALSE]
    /\ mouse = [x |-> 0, y |-> 0]
    /\ results = NoHand
    /\ unread = FALSE
    /\ lost = "-"
    /\ phase = "SNOW"
    /\ pending = <<>>
    /\ propPhase = "SNOW"
    /\ op = "mount"
    /\ TreeIdle
    /\ FieldsIdle
    /\ FreqIdle
    /\ ThemeIdle
    /\ AudioIdle

\* hands.onResults(results), called once per camera frame sent to the detector.
onResults(r) ==
    /\ CameraStarted
    /\ results' = r
    /\ hand' = UpdateRef(hand, r)
    /\ lost' = IF unread THEN hand.gesture ELSE "-"
    /\ unread' = TRUE
    /\ op' = "onResults"
    /\ UNCHANGED <<available, mouse, phase, pending, propPhase>>
    /\ UNCHANGED outside

\* A pointer event moves the canvas pointer.
PointerMove(m) ==
    /\ mouse' = m
    /\ op' = "pointer"
    /\ UNCHANGED <<available, hand, results, unread, lost, phase, pending, propPhase>>
    /\ UNCHANGED outside

\* InteractionHandler's useFrame callback, with the phase prop of its last render.
InteractionFrame ==
    LET calls == PhaseLogic(propPhase, hand.gesture)
    IN  /\ Len(pending) + Len(calls) <= MaxPending
        /\ hand' = Fallback(hand, mouse)
        /\ pending' = pending \o calls
        /\ unread' = FALSE
        /\ op' = "frame"
        /\ UNCHANGED <<available, mouse, results, lost, phase, propPhase>>
        /\ UNCHANGED outside

\* App re-renders: the queued updaters are applied to state.
AppRender ==
    /\ pending # <<>>
    /\ phase' = Reduce(pending, phase)
    /\ pending' = <<>>
    /\ op' = "appRender"
    /\ UNCHANGED <<available, hand, mouse, results, unread, lost, propPhase>>
    /\ UNCHANGED outside

\* The canvas re-renders its children: InteractionHandler's frame callback is
\* replaced by one that closes over the current state.phase.
SceneRender ==
    /\ propPhase # phase
    /\ propPhase' = phase
    /\ op' = "sceneRender"
    /\ UNCHANGED <<available, hand, mouse, results, unread, lost, phase, pending>>
    /\ UNCHANGED outside

Next ==
    \/ \E r \in DetectionResults : onResults(r)
    \/ \E m \in PointerPositions : PointerMove(m)
    \/ InteractionFrame
    \/ AppRender
    \/ SceneRender

Spec == Init /\ [][Next]_vars

\* The interaction state while another part of the program is followed.
InteractionIdle ==
    /\ available = TRUE
    /\ hand = [rawX |-> 10, rawY |-> 10, gesture |-> "NONE", isTracking |-> FALSE]
    /\ mouse = [x |-> 0, y |-> 0]
    /\ results = NoHand
    /\ unread = FALSE
    /\ lost = "-"
    /\ phase = "SNOW"
    /\ pending = <<>>
    /\ propPhase = "SNOW"
    /\ op = "mount"

\* Tree generation for every palette input, over the outcomes of the spur
\* draws.
InitTree ==
    /\ InteractionIdle
    /\ FieldsIdle
    /\ FreqIdle
    /\ ThemeIdle
    /\ AudioIdle
    /\ \E palette \in PaletteInputs : TreeStart(palette)

NextTree ==
    \/ \E draws \in SpurDraws, rand \in {40, 97} :
          MainBranch(draws, 1..Len(combinedPalette(colors)), rand, 0)
    \/ TreeDone

SpecTree == InitTree /\ [][NextTree]_vars

\* The generator is a loop that runs on until it returns.
SpecTreeRuns == SpecTree /\ WF_vars(NextTree)

\* Tree generation for every palette input, over the colour and decoration
\* draws, with a spur at every segment that can have one.
InitDeco ==
    /\ InteractionIdle
    /\ FieldsIdle
    /\ FreqIdle
    /\ ThemeIdle
    /\ AudioIdle
    /\ \E palette \in PaletteInputs : TreeStart(palette)

NextDeco ==
    \/ \E picks \in HexDraws(colors), rand \in RandDraws, k \in PickDraws :
          MainBranch([s \in 1..segments |-> TRUE], picks, rand, k)
    \/ TreeDone

SpecDeco == InitDeco /\ [][NextDeco]_vars

\* Hands the vortex can read: none yet, and one showing OPEN.
HandInputs ==
    { [rawX |-> 10, rawY |-> 10, gesture |-> "NONE", isTracking |-> FALSE],
      [rawX |-> 10, rawY |-> 10, gesture |-> "OPEN", isTracking |-> TRUE] }

\* The two particle fields in each phase: a vortex particle near the top
\* under slow frames, and a snowflake about to leave the bottom.
InitFields ==
    /\ available = TRUE
    /\ hand \in HandInputs
    /\ mouse = [x |-> 0, y |-> 0]
    /\ results = NoHand
    /\ unread = FALSE
    /\ lost = "-"
    /\ phase \in AppPhase
    /\ pending = <<>>
    /\ propPhase = phase
    /\ op = "mount"
    /\ TreeIdle
    /\ FreqIdle
    /\ ThemeIdle
    /\ AudioIdle
    /\ \E velocity \in {1, 3} : VortexStart(velocity, 5900)
    /\ SnowStart(-999, -1, 300)
    /\ TreeGroupStart

NextFields ==
    \/ VortexFrame(200, 49, 0)
    \/ \E d \in {6, 24}, rnd \in {0, 19} : SnowFrame(d, rnd)

SpecFields == InitFields /\ [][NextFields]_vars

\* Hands anywhere on the image, steering or not.
VortexHands ==
    { [rawX |-> x, rawY |-> y, gesture |-> g, isTracking |-> g # "NONE"] :
        x \in {0, 10, 20}, y \in {0, 10, 20}, g \in {"NONE", "OPEN"} }

\* delta * 60 of the frames: none, and slow frames.
VortexFrameTimes == {0, 100, 200}

\* Math.random() * 5.0, in tenths.
RadiusDraws == {0, 49}

\* The vortex under every hand: the record followed starts anywhere in
\* [-4, 6), its neighbour near the top.
InitVortex ==
    /\ available = TRUE
    /\ hand \in VortexHands
    /\ mouse = [x |-> 0, y |-> 0]
    /\ results = NoHand
    /\ unread = FALSE
    /\ lost = "-"
    /\ phase = "TREE"
    /\ pending = <<>>
    /\ propPhase = phase
    /\ op = "mount"
    /\ TreeIdle
    /\ FreqIdle
    /\ ThemeIdle
    /\ AudioIdle
    /\ SnowStart(0, 0, 0)
    /\ TreeGroupStart
    /\ \E velocity \in {1, 3}, y \in {-4000, 5999} :
          metaData = [length |-> VortexCount, velocity |-> velocity, y |-> y,
                      angle |-> 0, radius |-> 45,
                      other |-> [velocity |-> 2, y |-> 5000, angle |-> 0,
                                 radius |-> 10]]

NextVortex ==
    \E d \in VortexFrameTimes, r \in RadiusDraws, rOther \in RadiusDraws :
        VortexFrame(d, r, rOther)

SpecVortex == InitVortex /\ [][NextVortex]_vars

\* delta * 60 of the tree's frames: a frame at 60 Hz, half a second, and
\* two seconds.
TreeFrameTimes == {1, 30, 120}

\* The tree in each phase shown, under a hand that steers and one that does
\* not, the phase committed being the one shown or another.
InitReveal ==
    /\ available = TRUE
    /\ hand \in { [rawX |-> 10, rawY |-> 0, gesture |-> "NONE", isTracking |-> TRUE],
                  [rawX |-> 10, rawY |-> 10, gesture |-> "OPEN", isTracking |-> TRUE] }
    /\ mouse = [x |-> 0, y |-> 0]
    /\ results = NoHand
    /\ unread = FALSE
    /\ lost = "-"
    /\ \E shown \in AppPhase, committed \in AppPhase :
          propPhase = shown /\ phase = committed
    /\ pending = <<>>
    /\ op = "mount"
    /\ TreeIdle
    /\ FreqIdle
    /\ ThemeIdle
    /\ AudioIdle
    /\ FieldsIdle

NextReveal ==
    \/ \E d \in TreeFrameTimes : TreeFrame(d)
    \/ SceneRender

SpecReveal == InitReveal /\ [][NextReveal]_vars

MaxDrift == 3000

\* The snowflake field under frames of a sixtieth of a second, of a tenth,
\* of four tenths and of one second, in each phase and across a change of the
\* phase prop; a flake that has been thrown MaxDrift hundredths from the
\* origin is followed no further.
InitSnow ==
    /\ available = TRUE
    /\ hand = [rawX |-> 10, rawY |-> 10, gesture |-> "NONE", isTracking |-> FALSE]
    /\ mouse = [x |-> 0, y |-> 0]
    /\ results = NoHand
    /\ unread = FALSE
    /\ lost = "-"
    /\ \E shown \in AppPhase, committed \in AppPhase :
          /\ <<shown, committed>> \in
                {<<"SNOW", "SNOW">>, <<"GATHER", "GATHER">>, <<"TREE", "TREE">>,
                 <<"GATHER", "TREE">>, <<"TREE", "SNOW">>}
          /\ propPhase = shown
          /\ phase = committed
    /\ pending = <<>>
    /\ op = "mount"
    /\ TreeIdle
    /\ FreqIdle
    /\ ThemeIdle
    /\ AudioIdle
    /\ VortexStart(1, 0)
    /\ TreeGroupStart
    /\ \E cy \in {-999, 1249}, ty \in {-600, 300} : SnowStart(cy, -1, ty)

SnowFrames ==
    /\ propPhase = "GATHER" => snow.cy = -10000 \/ Abs(snow.cy) <= MaxDrift
    /\ \E d \in {1, 6, 24, 60}, rnd \in {0, 19} : SnowFrame(d, rnd)

NextSnow ==
    \/ SnowFrames
    \/ SceneRender

SpecSnow == InitSnow /\ [][NextSnow]_vars

\* Frames keep coming while the scene is mounted.
SpecSnowRuns == SpecSnow /\ WF_vars(SnowFrames)

\* hexToFreq called on colour strings and bases.
InitFreq ==
    /\ InteractionIdle
    /\ TreeIdle
    /\ FieldsIdle
    /\ ThemeIdle
    /\ AudioIdle
    /\ \E hex \in FreqHexInputs, base \in FreqBaseInputs :
          hexToFreqCall = [hex |-> hex, base |-> base, result |-> 0, calls |-> 0]

NextFreq == CallHexToFreq

SpecFreq == InitFreq /\ [][NextFreq]_vars

\* One generateTheme call, over what the service can do.
InitTheme ==
    /\ InteractionIdle
    /\ TreeIdle
    /\ FieldsIdle
    /\ FreqIdle
    /\ ThemeIdle
    /\ AudioIdle

NextTheme ==
    \/ CallGenerateTheme
    \/ RequestFails
    \/ \E text \in ResponseTexts : RequestResponds(text)

SpecTheme == InitTheme /\ [][NextTheme]_vars

\* Palettes the audio is driven with: the default, and one of two colours.
AudioPalettes == {DefaultColors, SubSeq(FallbackColors, 1, 2)}

\* The ambiance control, palette changes and the passing of time.
InitAudio ==
    /\ InteractionIdle
    /\ TreeIdle
    /\ FieldsIdle
    /\ FreqIdle
    /\ ThemeIdle
    /\ clock = 0
    /\ audioAvailable \in BOOLEAN
    /\ isPlayingMusic = FALSE
    /\ audioCtxRef = "null"
    /\ gainRef = [node |-> FALSE, events |-> <<>>]
    /\ oscillatorsRef = <<>>
    /\ fading = {}
    /\ timers = <<>>
    /\ changes = 0
    /\ thrown = FALSE
    /\ lastStop = NoStop
    /\ mounted = TRUE

NextAudio ==
    \/ toggleAmbiance
    \/ Unmount
    \/ \E palette \in AudioPalettes : PaletteChange(palette)
    \/ ScheduledStop
    \/ ReleaseTimer
    \/ Tick
    \/ \E can \in BOOLEAN : AudioBecomes(can)

SpecAudio == InitAudio /\ [][NextAudio]_vars

\* ------------------------------------------------------------- properties

\* The three transition rules, as a table: the phase a frame asks for, or "-".
RuleTarget(ph, gesture) ==
    IF ph = "SNOW" /\ gesture = "OPEN" THEN "GATHER"
    ELSE IF ph = "GATHER" /\ gesture = "FIST" THEN "TREE"
    ELSE IF ph = "GATHER" /\ gesture = "NONE" THEN "SNOW"
    ELSE "-"

\* The frame step just taken asked for phase p: it queued one more update, and
\* rendering the queue now would show p.
FrameAsked(p) ==
    /\ Len(pending') = Len(pending) + 1
    /\ Reduce(pending', phase') = p

\* C1: once state.phase is TREE it is TREE in every later state.
C1_TreeIsTerminal == [][phase = "TREE" => phase' = "TREE"]_vars

\* C2: a frame evaluated with phase SNOW and gesture OPEN asks for GATHER, and
\* GATHER is the phase the next render shows.
C2_SnowOpenGathers ==
    [][(op' = "frame" /\ propPhase = "SNOW" /\ hand.gesture = "OPEN")
        => FrameAsked("GATHER")]_vars

C2_Witness ==
    /\ op = "frame"
    /\ propPhase = "SNOW"
    /\ hand.gesture = "OPEN"
    /\ pending = <<"GATHER">>

\* C3: a frame evaluated with phase GATHER and gesture FIST asks for TREE.
C3_GatherFistTree ==
    [][(op' = "frame" /\ propPhase = "GATHER" /\ hand.gesture = "FIST")
        => FrameAsked("TREE")]_vars

C3_Witness ==
    /\ op = "frame"
    /\ propPhase = "GATHER"
    /\ phase = "GATHER"
    /\ hand.gesture = "FIST"
    /\ pending = <<"TREE">>

\* C4: a frame evaluated with phase GATHER and gesture NONE asks for SNOW at
\* once: one such frame is enough, whatever was read by the frames before it.
C4_GatherNoneReverts ==
    [][(op' = "frame" /\ propPhase = "GATHER" /\ hand.gesture = "NONE")
        => FrameAsked("SNOW")]_vars

C4_Witness ==
    /\ op = "frame"
    /\ propPhase = "GATHER"
    /\ phase = "GATHER"
    /\ hand.gesture = "NONE"
    /\ pending = <<"SNOW">>

\* C5: for every (phase, gesture) pair other than (SNOW, OPEN), (GATHER, FIST)
\* and (GATHER, NONE), a frame leaves the phase alone and queues no update.
C5_OtherPairsNoTransition ==
    [][(op' = "frame" /\ RuleTarget(propPhase, hand.gesture) = "-")
        => (pending' = pending /\ phase' = phase /\ propPhase' = propPhase)]_vars

C5_Witness ==
    /\ op = "frame"
    /\ propPhase = "GATHER"
    /\ phase = "GATHER"
    /\ hand.gesture = "OPEN"
    /\ pending = <<>>

\* The gesture the thresholds give for the latest detection result.
LatestGesture ==
    IF ~HasHand(results) THEN "NONE"
    ELSE LET lm == results.multiHandLandmarks[1]
             total == Dist(lm[8], lm[0]) + Dist(lm[12], lm[0])
                      + Dist(lm[16], lm[0]) + Dist(lm[20], lm[0])
         IN  IF total > 4 * 5 THEN "OPEN"
             ELSE IF total < 4 * 3 THEN "FIST"
             ELSE "NONE"

\* C6: a frame acts on the gesture of the latest detection result only; a
\* gesture overwritten before any frame read it has no effect.  With phase
\* GATHER, NONE overwritten by FIST before the frame gives TREE.
C6_LastValueWins ==
    [][op' = "frame" =>
        /\ RuleTarget(propPhase, LatestGesture) = "-" => pending' = pending
        /\ RuleTarget(propPhase, LatestGesture) # "-"
              => FrameAsked(RuleTarget(propPhase, LatestGesture))
        /\ (propPhase = "GATHER" /\ lost = "NONE" /\ LatestGesture = "FIST")
              => (FrameAsked("TREE") /\ pending' = Append(pending, "TREE"))]_vars

C6_Witness ==
    /\ op = "frame"
    /\ propPhase = "GATHER"
    /\ lost = "NONE"
    /\ hand.gesture = "FIST"
    /\ pending = <<"TREE">>

\* C7: while isTracking is true the position changes only through a detection
\* result with a hand; the frame's pointer fallback changes the position only
\* when isTracking is false.
C7_SingleWriter ==
    [][/\ (hand.isTracking /\ <<hand'.rawX, hand'.rawY>> # <<hand.rawX, hand.rawY>>)
            => (op' = "onResults" /\ HasHand(results'))
       /\ (op' = "frame" /\ <<hand'.rawX, hand'.rawY>> # <<hand.rawX, hand.rawY>>)
            => (~hand.isTracking
                /\ hand'.rawX = mouse.x + 10 /\ hand'.rawY = mouse.y + 10)]_vars

C7_Witness ==
    /\ op = "frame"
    /\ hand.isTracking
    /\ <<hand.rawX, hand.rawY>> # <<mouse.x + 10, mouse.y + 10>>

\* C8: after a detection result with a hand, gesture is OPEN if the mean
\* fingertip-to-wrist distance exceeds 0.25, FIST if it is below 0.15 and NONE
\* otherwise (0.25 and 0.15 themselves included), and isTracking is true.
C8_Classification ==
    HasHand(results) =>
        /\ hand.isTracking
        /\ hand.gesture = LatestGesture
        /\ hand.rawX = 20 - results.multiHandLandmarks[1][8].x
        /\ hand.rawY = results.multiHandLandmarks[1][8].y

C8_Witness ==
    /\ HasHand(results)
    /\ AvgDist(results.multiHandLandmarks[1]) = OpenThreshold
    /\ hand.gesture = "NONE"
    /\ hand.isTracking

\* C9: a detection result with no hand sets isTracking to false and gesture to
\* NONE and leaves rawX and rawY as they were.
C9_NoHandKeepsPosition ==
    [][(op' = "onResults" /\ ~HasHand(results'))
        => /\ hand'.isTracking = FALSE
           /\ hand'.gesture = "NONE"
           /\ hand'.rawX = hand.rawX
           /\ hand'.rawY = hand.rawY]_vars

C9_Witness ==
    /\ op = "onResults"
    /\ ~HasHand(results)
    /\ ~hand.isTracking
    /\ hand.gesture = "NONE"
    /\ hand.rawX = 4

\* C10: without the detection library or the video element, isTracking stays
\* false, gesture stays NONE and the phase stays SNOW, and every frame sets the
\* position from the pointer.
C10_ClassifierUnavailable ==
    /\ [](~available =>
            /\ hand.isTracking = FALSE
            /\ hand.gesture = "NONE"
            /\ phase = "SNOW"
            /\ propPhase = "SNOW"
            /\ pending = <<>>)
    /\ [][(~available /\ op' = "frame")
            => (hand'.rawX = mouse.x + 10 /\ hand'.rawY = mouse.y + 10)]_vars

C10_Witness ==
    /\ ~available
    /\ op = "frame"
    /\ mouse = [x |-> -10, y |-> 6]
    /\ hand.rawX = 0
    /\ hand.rawY = 16


\* C11: every main branch places exactly one decoration and no spur places
\* any, so the generator returns exactly 140 decorations, and a non-empty
\* point cloud, for every palette and every outcome of the spur draws.
C11_OneDecorationPerMainBranch ==
    /\ decorations = genI
    /\ genPc = "done" => decorations = 140 /\ points > 0

\* A finished tree in which spurs were generated.
C11_Witness ==
    /\ genPc = "done"
    /\ decorations = 140
    /\ points > 3 * 140 * 15 * 20

\* C14: the returned tree holds between 42,000 and 260,400 points, and the
\* position and colour arrays both hold exactly three entries per point.
C14_PointCount ==
    /\ pointColors = points
    /\ points % 3 = 0
    /\ points \div 3 >= genI * (15 * 20)
    /\ points \div 3 <= genI * (15 * 20 + 13 * 15 * 8)
    /\ genPc = "done" => points \div 3 >= 42000 /\ points \div 3 <= 260400

\* A finished tree of the largest size: every branch spawned all its spurs.
C14_Witness ==
    /\ genPc = "done"
    /\ points = 3 * 260400
    /\ pointColors = 3 * 260400

Range(seq) == {seq[k] : k \in 1..Len(seq)}

\* C12: with an empty palette the generator runs to its end, every foliage
\* point takes its colour from the fixed accent palette, and every decoration
\* that has a colour takes it from the fixed accent colours.
C12_EmptyPalette ==
    colors = <<>> =>
        /\ segHexes \subseteq Range(HSR_PALETTE)
        /\ lastDeco.color # <<>> => lastDeco.color \in Range(HSR_PALETTE)
        /\ genI = totalBranches => ENABLED TreeDone \/ genPc = "done"

\* A tree finished for the empty palette whose last decoration drew its
\* colour from the colour pool.
C12_Witness ==
    /\ colors = <<>>
    /\ genPc = "done"
    /\ lastDeco.type = "bauble"
    /\ segHexes = Range(HSR_PALETTE)

\* C13: no white palette entry, in any spelling, becomes the colour of a
\* decoration.
C13_NoWhiteDecoration ==
    lastDeco.color # <<>> => ~IsLightHex(lastDeco.color)

\* C15: the vortex field always holds exactly 800 particle records and the
\* snowflake field exactly 3000 positions of three coordinates; frames
\* overwrite them in place.
C15_FixedParticleCounts ==
    /\ metaData.length = 800
    /\ snow.length = 3 * 3000

\* A vortex particle has been respawned and a snowflake has been respawned or
\* hidden by the frames.
C15_Witness ==
    /\ metaData.y = -4000
    /\ snow.cy \in {1000, -10000}
    /\ metaData.length = 800
    /\ snow.length = 9000

\* The integer a six-digit colour string denotes, digit by digit.
HexValue(hex) ==
    DigitValue(hex[2]) * 1048576 + DigitValue(hex[3]) * 65536
    + DigitValue(hex[4]) * 4096 + DigitValue(hex[5]) * 256
    + DigitValue(hex[6]) * 16 + DigitValue(hex[7])

\* C16: hexToFreq(hex, base) is base plus the integer value of the hex digits
\* modulo 300: every call with the same arguments returns the same number,
\* hexToFreq('#00F0FF', 150) is 345, and for a six-digit colour the result
\* lies in [base, base + 299].
C16_HexToFreq ==
    hexToFreqCall.calls > 0 =>
        /\ hexToFreqCall.result = hexToFreqCall.base + (HexValue(hexToFreqCall.hex) % 300)
        /\ hexToFreqCall.result >= hexToFreqCall.base
        /\ hexToFreqCall.result <= hexToFreqCall.base + 299
        /\ hexToFreqCall.hex = HSR_PALETTE[1] /\ hexToFreqCall.base = 150
              => hexToFreqCall.result = 345

\* hexToFreq('#00F0FF', 150) has been called twice.
C16_Witness ==
    /\ hexToFreqCall.hex = HSR_PALETTE[1]
    /\ hexToFreqCall.base = 150
    /\ hexToFreqCall.calls = 2
    /\ hexToFreqCall.result = 345

\* C17: when the request to the theme service fails, generateTheme resolves
\* with the fallback colours and the fallback greeting.
C17_FailedRequestFallsBack ==
    theme.service = "failed" =>
        /\ theme.pc = "resolved"
        /\ theme.result.colors = FallbackColors
        /\ theme.result.greeting = "Happy Holidays! (System Rebooting... Energy restored)"

\* A call whose request failed has settled.
C17_Witness ==
    /\ theme.service = "failed"
    /\ theme.pc = "resolved"
    /\ theme.result = FallbackTheme

\* A theme: an object with a list of five colours and a greeting.
IsTheme(value) ==
    /\ value.type = "object"
    /\ value.hasColors
    /\ Len(value.colors) = 5
    /\ value.hasGreeting

\* The response text is empty, is not JSON, or is JSON that is not a theme.
Malformed(text) ==
    \/ Len(text) = 0
    \/ ~Parses(CleanUp(text))
    \/ ~IsTheme(CleanUp(text)[1].value)

\* C18: for every malformed response generateTheme resolves with the
\* fallback theme: it never rejects and never returns the malformed value.
C18_MalformedFallsBack ==
    theme.service = "responded" /\ Malformed(theme.text) =>
        /\ theme.pc = "resolved"
        /\ theme.result = FallbackTheme

\* C19: while no audio context can be created, a toggle of the ambiance
\* raises no error, leaves isPlayingMusic false and the audio references
\* empty; and a toggle made once a context can be created starts the audio.
C19_UnavailableContext ==
    [][ toggleAmbiance /\ ~isPlayingMusic /\ audioCtxRef = "null" =>
          IF audioAvailable
          THEN isPlayingMusic' /\ audioCtxRef' # "null" /\ gainRef'.node
          ELSE /\ ~thrown'
               /\ ~isPlayingMusic'
               /\ audioCtxRef' = "null"
               /\ ~gainRef'.node
               /\ oscillatorsRef' = <<>> ]_vars

\* C20: no tone generator is stopped while at audible volume: a tone released
\* by a palette change has been ramped to 0.001 when its scheduled stop comes,
\* and the tones stopped by the release timer are stopped under a master gain
\* that has been ramped to 0.001.
C20_NoHardStop == ~Audible(lastStop)

\* The changes of phase the transition rules allow.
LegalCommit(from, to) ==
    \/ from = "SNOW" /\ to = "GATHER"
    \/ from = "GATHER" /\ to \in {"TREE", "SNOW"}

\* C21: under every interleaving of frames, gesture writes and phase commits,
\* the committed phases follow the transition rules, although a frame that
\* runs before a requested change takes effect evaluates the old phase: each
\* change of the committed phase is one the rules allow, and a committed TREE
\* is never replaced by SNOW or GATHER.
C21_CommitsFollowRules ==
    [][phase' # phase => LegalCommit(phase, phase')]_vars

\* C22: generateBranch is only ever called with depth 0 or 1, a depth-1
\* branch spawns no branch, a main branch spawns its spurs at segment 2 or
\* later, at most 13 of them, and the generation comes to its end for every
\* outcome of the draws.
C22_SpursFromMainBranchesOnly ==
    /\ [](\A call \in branchCalls :
             /\ call.depth \in {0, 1}
             /\ call.depth = 1 => call.at >= 2 /\ call.at < 15)
    /\ [](Cardinality({call \in branchCalls : call.depth = 1}) <= 13)
    /\ <>(genPc = "done")

\* A finished tree whose last main branch spawned all thirteen spurs.
C22_Witness ==
    /\ genPc = "done"
    /\ Cardinality({call \in branchCalls : call.depth = 1}) = 13
    /\ [depth |-> 1, at |-> 2] \in branchCalls

\* C23: in a frame of phase TREE a snowflake not yet below -10 falls by at
\* least 0.2, one that comes below -10 is put at -100, and one at -100 stays
\* there; so while the phase stays TREE no snowflake comes back above the
\* threshold, and if the phase stays TREE every snowflake ends hidden for good.
C23_TreeHidesSnow ==
    /\ [][(op' = "snowFrame" /\ propPhase = "TREE") =>
            /\ snow.cy >= -1000 => snow'.cy <= snow.cy - 20
            /\ snow'.cy < -1000 => snow'.cy = -10000
            /\ snow.cy < -1000 => snow'.cy = -10000]_vars
    /\ <>[](propPhase = "TREE") => <>[](snow.cy = -10000)

\* A flake hidden by a frame of phase TREE.
C23_Witness ==
    /\ propPhase = "TREE"
    /\ op = "snowFrame"
    /\ snow.cy = -10000

\* C24: a frame of phase GATHER moves the flake to
\* cur + (target - cur) * (2.5 * delta), its distance to the target does not
\* grow, whatever the frame time, and no step changes the target.
C24_GatherConverges ==
    /\ [][(op' = "snowFrame" /\ propPhase = "GATHER") =>
            /\ \E d \in {1, 6, 24, 60} :
                  snow'.cy = snow.cy + ((snow.ty - snow.cy) * 25 * d) \div 600
            /\ Abs(snow.ty - snow'.cy) <= Abs(snow.ty - snow.cy)]_vars
    /\ [][snow'.ty = snow.ty]_vars

\* C25: for hands in the image and frame times that are not negative, after
\* every vortex frame each particle's height is in [-4, 8]; a height goes down
\* within a frame only by a respawn, which puts a particle that exceeded 8 at
\* exactly -4 with a newly drawn radius; the respawn leaves the particle's
\* velocity and the angle the frame gave it, and the other particles get what
\* their own frame gives them.
C25_VortexHeights ==
    /\ [](\A particle \in {metaData, metaData.other} :
             particle.y >= -4000 /\ particle.y <= 8000)
    /\ [][op' = "vortexFrame" =>
            /\ \A pair \in {<<metaData, metaData'>>,
                            <<metaData.other, metaData'.other>>} :
                  /\ pair[2].velocity = pair[1].velocity
                  /\ pair[2].angle = pair[1].angle + RotationStep(hand)
                  /\ \E d \in VortexFrameTimes :
                        LET y == pair[1].y + pair[1].velocity * SpeedMultiplier(hand) * d
                        IN  \/ y <= 8000 /\ pair[2].y = y /\ pair[2].radius = pair[1].radius
                            \/ y > 8000 /\ pair[2].y = -4000 /\ pair[2].radius \in RadiusDraws
                  /\ pair[2].y < pair[1].y => pair[2].y = -4000]_vars

\* The particle followed has been respawned by a frame that moved its
\* neighbour up without respawning it.
C25_Witness ==
    /\ op = "vortexFrame"
    /\ metaData.y = -4000
    /\ metaData.radius = 0
    /\ metaData.angle # 0
    /\ metaData.other.y > 5000
    /\ metaData.other.radius = 10

\* C26: over every interleaving of toggles, palette changes, the unmount
\* cleanup and release timers, while isPlayingMusic is true the audio context
\* and the master gain exist; while a release timer is pending no step
\* flags the audio as playing or makes a context, so the timer never tears
\* down audio flagged as playing; and at most 3 tones are tracked.
C26_PlayingHasContext ==
    /\ [](isPlayingMusic => audioCtxRef # "null" /\ gainRef.node)
    /\ [](Len(oscillatorsRef) <= 3)
    /\ [][timers # <<>> =>
            /\ ~isPlayingMusic'
            /\ audioCtxRef' \in {audioCtxRef, "null"}]_vars

\* The ambiance plays again, with its three tones, after the release timer
\* of an earlier deactivation has closed the context before.
C26_Witness ==
    /\ isPlayingMusic
    /\ audioCtxRef = "context"
    /\ Len(oscillatorsRef) = 3
    /\ lastStop.by = "timer"
    /\ timers = <<>>

\* C27: a frame in which the phase shown is SNOW or GATHER resets the tree's
\* reveal progress to 0 and has target scale 0; the reveal progress rises
\* above 0 only in a frame in which the phase shown is TREE, and such a frame,
\* of at most 2 s, never lowers it and never takes it above 1.
C27_TreeOnlyInTreePhase ==
    /\ [][(op' = "treeFrame" /\ propPhase # "TREE") =>
            /\ treeGroup'.revealTimeRef = 0
            /\ treeGroup'.finalScale = 0]_vars
    /\ [][treeGroup'.revealTimeRef > treeGroup.revealTimeRef =>
            propPhase = "TREE" /\ op' = "treeFrame"]_vars
    /\ [][(op' = "treeFrame" /\ propPhase = "TREE") =>
            /\ treeGroup'.revealTimeRef >= treeGroup.revealTimeRef
            /\ treeGroup'.revealTimeRef <= 1000]_vars

\* A frame of another phase has reset the reveal of a tree that frames of
\* phase TREE had grown, its group still shrinking.
C27_Witness ==
    /\ op = "treeFrame"
    /\ propPhase # "TREE"
    /\ treeGroup.revealTimeRef = 0
    /\ treeGroup.finalScale = 0
    /\ treeGroup.scale > 50

====
